---- MODULE Spec2Model ----
(***************************************************************************)
(* A state-machine model of train(args) in src/src/train.py.               *)
(*                                                                         *)
(* One action per statement (or per group of adjacent statements) of       *)
(* train(); pc holds the line the interpreter is about to execute.  An     *)
(* uncaught Python exception ends the call: pc = "failed" and error holds  *)
(* the exception and the line that raised it.                              *)
(*                                                                         *)
(* Opaque collaborators (sc_Dataset, load_data, multimodal_AE, the loss    *)
(* functions, corr_score, SummaryWriter, save_model) are modelled by their *)
(* call contract only: a call succeeds, and corr_score returns some value  *)
(* of CorrValues.  Numbers are scaled to integers: the learning rate is    *)
(* in units of 1e-6 and a mean is kept as the pair (sum, count).           *)
(***************************************************************************)
EXTENDS Integers, Sequences, FiniteSets, TLC

\* ------------------------------------------------------------------ bounds
MaxEpochs == 2
MaxTrain == 2
MaxVal == 2

\* patience = 5 of ReduceLROnPlateau (train.py line 34)
Patience == 5
\* default of --learning_rate, 0.001, in units of 1e-6 (train.py line 98)
DefaultLR == 1000
\* default of --batch_size (train.py line 101)
DefaultBatch == 256

\* ------------------------------------------------------------- value sets
\* Python's None, and a local name not bound yet
None == [none |-> TRUE]
Unbound == [unbound |-> TRUE]

Optimizers == {"Adam", "SGD", "RMSprop"}
\* the first and the last branch of the chain of lines 36-43, and a value it misses
Losses == {"nb", "mse", "l1"}
LogDirs == {None, [path |-> "logdir"]}
BatchSizes == {1, 2}
CorrValues == {0, 1}
\* the epoch count of the scheduler runs: one plateau and an epoch after it
SchedEpochs == Patience + 3

VARIABLES
    args,          \* the argparse namespace
    dataset,       \* what is on disk: the number of batches load_data yields
    train_set, val_set,   \* the two loaders, [len], Unbound before line 21
    pc, error,
    optimizer,     \* Unbound, or [kind, lr]  (lr = param_groups[0]['lr'])
    scheduler,     \* Unbound, or [best, num_bad_epochs]
    loss_fn_ae,    \* Unbound, or [name]
    train_logger, valid_logger,   \* Unbound, None, or [dir]
    global_step,
    epoch,         \* the loop variable of line 51 (-1: not yet bound)
    idx,           \* samples already drawn from the loader being iterated
    training,      \* model.training
    params,        \* number of updates applied to the model's parameters
    grad,          \* [state, at]: the .grad buffers and the params they are of
    pred,          \* [params, training] of the latest forward pass, or Unbound
    loss,          \* [params] of the latest loss, or Unbound
    corr_sum,
    logs,          \* the scalars written, in order: [logger, tag, step]
    saved,         \* number of save_model calls
    trace,         \* history: every operation executed, in order
    hist           \* history: [val_scores, metric]

vars == <<args, dataset, train_set, val_set, pc, error, optimizer, scheduler,
          loss_fn_ae, train_logger, valid_logger, global_step, epoch, idx,
          training, params, grad, pred, loss, corr_sum, logs, saved, trace, hist>>

\* variable groups, for UNCHANGED
env == <<args, dataset>>
loaders == <<train_set, val_set>>
wiring == <<optimizer, scheduler, loss_fn_ae>>
loggers == <<train_logger, valid_logger>>
loop == <<global_step, epoch, idx, corr_sum>>
model == <<training, params, grad, pred, loss>>
out == <<logs, saved>>

\* ---------------------------------------------------------------- helpers
\* an uncaught exception e raised by the statement at line l
Raise(e, l) ==
    /\ pc' = "failed"
    /\ error' = [kind |-> e, line |-> l]
    /\ UNCHANGED <<env, loaders, wiring, loggers, loop, model, out, trace, hist>>

Goto(l) == pc' = l /\ error' = error

CurLr == IF optimizer = Unbound THEN -1 ELSE optimizer.lr

\* one entry of the history: the operation and the state it was executed in
Op(name, phase) ==
    [op |-> name, phase |-> phase, epoch |-> epoch, training |-> training,
     gs |-> global_step, params |-> params, grad |-> grad, lr |-> CurLr,
     loss_of |-> IF loss = Unbound THEN -1 ELSE loss.params]

Log(name, phase) == trace' = Append(trace, Op(name, phase))

\* corr_sum / len(...): a mean, kept exact as (sum, count)
Mean(s, n) == [num |-> s, den |-> n]

\* a > b for two means
Greater(a, b) == a.num * b.den > b.num * a.den

\* float('-inf'), below every mean of CorrValues
NegInf == [num |-> -1, den |-> 1]

\* faulty variant of add_scalar: every scalar goes to the train writer
add_scalar_one_writer(w, tag, step) ==
    Append(logs, [logger |-> "train", tag |-> tag, step |-> step])

\* SummaryWriter.add_scalar(tag, value, step) on the writer named w
add_scalar(w, tag, step) ==
    Append(logs, [logger |-> w.dir, tag |-> tag, step |-> step])

\* ------------------------------------------------------------------- setup
\* faulty variant of load_data: the loaders are re-batched by args.batch_size
load_data_batched(ds, a) ==
    [train |-> [len |-> (ds.train + a.batch_size - 1) \div a.batch_size],
     val |-> [len |-> (ds.val + a.batch_size - 1) \div a.batch_size]]

\* lines 15-21: load_data(dataset) is not given args.batch_size
load_data(ds, a) == [train |-> [len |-> ds.train], val |-> [len |-> ds.val]]

LoadData(a) ==
    /\ pc = "L15"
    /\ train_set' = load_data(dataset, a).train
    /\ val_set' = load_data(dataset, a).val
    /\ Goto("L29")
    /\ Log("load_data", "setup")
    /\ UNCHANGED <<env, wiring, loggers, loop, model, out, hist>>

\* lines 29-32: an if/elif chain with no else
select_optimizer(a) ==
    IF a.optimizer = "Adam" THEN [kind |-> "Adam", lr |-> a.learning_rate]
    ELSE IF a.optimizer = "SGD" THEN [kind |-> "SGD", lr |-> a.learning_rate]
    ELSE Unbound

\* faulty variant of SelectOptimizer: the option is validated, and an unmatched
\* one raises where it is selected
SelectOptimizerValidated(a) ==
    /\ pc = "L29"
    /\ IF select_optimizer(a) = Unbound
       THEN Raise("ValueError", "L29")
       ELSE /\ optimizer' = select_optimizer(a)
            /\ Goto("L33")
            /\ Log("select_optimizer", "setup")
            /\ UNCHANGED <<env, loaders, scheduler, loss_fn_ae, loggers, loop, model,
                           out, hist>>

SelectOptimizer(a) ==
    /\ pc = "L29"
    /\ optimizer' = select_optimizer(a)
    /\ Goto("L33")
    /\ Log("select_optimizer", "setup")
    /\ UNCHANGED <<env, loaders, scheduler, loss_fn_ae, loggers, loop, model, out, hist>>

\* lines 33-34: ReduceLROnPlateau(optimizer, 'max', patience = 5)
CreateScheduler(a) ==
    /\ pc = "L33"
    /\ IF a.schedule_lr
       THEN IF optimizer = Unbound
            THEN Raise("UnboundLocalError", "L34")
            ELSE /\ scheduler' = [best |-> NegInf, num_bad_epochs |-> 0]
                 /\ Goto("L36")
                 /\ Log("create_scheduler", "setup")
                 /\ UNCHANGED <<env, loaders, optimizer, loss_fn_ae, loggers, loop,
                                model, out, hist>>
       ELSE /\ Goto("L36")
            /\ UNCHANGED <<env, loaders, wiring, loggers, loop, model, out, trace, hist>>

\* lines 36-43: an if/elif chain with no else
select_loss(a) ==
    IF a.loss_ae = "nb" THEN [name |-> "nb"]
    ELSE IF a.loss_ae = "gauss" THEN [name |-> "gauss"]
    ELSE IF a.loss_ae = "ncorr" THEN [name |-> "ncorr"]
    ELSE IF a.loss_ae = "mse" THEN [name |-> "mse"]
    ELSE Unbound

SelectLoss(a) ==
    /\ pc = "L36"
    /\ loss_fn_ae' = select_loss(a)
    /\ Goto("L45")
    /\ Log("select_loss", "setup")
    /\ UNCHANGED <<env, loaders, optimizer, scheduler, loggers, loop, model, out, hist>>

\* faulty variant of make_logger: the writers are made whatever log_dir is
make_logger_always(a, sub) == [dir |-> sub]

\* lines 45-49
make_logger(a, sub) == IF a.log_dir # None THEN [dir |-> sub] ELSE None

CreateLoggers(a) ==
    /\ pc = "L45"
    /\ train_logger' = make_logger(a, "train")
    /\ valid_logger' = make_logger(a, "valid")
    /\ global_step' = 0
    /\ Goto("L51")
    /\ Log("create_loggers", "setup")
    /\ UNCHANGED <<env, loaders, wiring, epoch, idx, corr_sum, model, out, hist>>

\* -------------------------------------------------------------- epoch loop
\* faulty variant of EpochLoop: one epoch too many
EpochLoopOffByOne(a) ==
    /\ pc = "L51"
    /\ IF epoch + 1 <= a.n_epochs
       THEN /\ epoch' = epoch + 1
            /\ Goto("L52")
       ELSE /\ epoch' = epoch
            /\ Goto("L87")
    /\ UNCHANGED <<env, loaders, wiring, loggers, global_step, idx, corr_sum, model,
                   out, trace, hist>>

\* line 51: for epoch in range(args.n_epochs)
EpochLoop(a) ==
    /\ pc = "L51"
    /\ IF epoch + 1 < a.n_epochs
       THEN /\ epoch' = epoch + 1
            /\ Goto("L52")
       ELSE /\ epoch' = epoch
            /\ Goto("L87")
    /\ UNCHANGED <<env, loaders, wiring, loggers, global_step, idx, corr_sum, model,
                   out, trace, hist>>

\* faulty variant of model_train: the mode is left as the last epoch set it
model_train_skipped(t) == t

\* line 52: model.train()
model_train(t) == TRUE

\* lines 52-53; the loader's iterator of line 54 starts afresh
ModelTrain(a) ==
    /\ pc = "L52"
    /\ training' = model_train(training)
    /\ corr_sum' = 0
    /\ idx' = 0
    /\ Goto("L54")
    /\ Log("model.train", "train")
    /\ UNCHANGED <<env, loaders, wiring, loggers, global_step, epoch, params, grad,
                   pred, loss, out, hist>>

\* lines 54-56: for sample in train_set
TrainLoop(a) ==
    /\ pc = "L54"
    /\ IF idx < train_set.len
       THEN /\ idx' = idx + 1
            /\ Goto("L57")
       ELSE /\ idx' = idx
            /\ Goto("L65")
    /\ UNCHANGED <<env, loaders, wiring, loggers, global_step, epoch, corr_sum, model,
                   out, trace, hist>>

\* faulty variant of ZeroGrad: the gradients are not cleared
ZeroGradMissing(a) ==
    /\ pc = "L57"
    /\ IF optimizer = Unbound
       THEN Raise("UnboundLocalError", "L57")
       ELSE /\ Goto("L58")
            /\ Log("zero_grad", "train")
            /\ UNCHANGED <<env, loaders, wiring, loggers, loop, model, out, hist>>

\* line 57: optimizer.zero_grad()
ZeroGrad(a) ==
    /\ pc = "L57"
    /\ IF optimizer = Unbound
       THEN Raise("UnboundLocalError", "L57")
       ELSE /\ grad' = [state |-> "zero", at |-> params]
            /\ Goto("L58")
            /\ Log("zero_grad", "train")
            /\ UNCHANGED <<env, loaders, wiring, loggers, loop, training, params, pred,
                           loss, out, hist>>

\* line 58: pred_Y_exp = model(X_exp)
Forward(a) ==
    /\ pc = "L58"
    /\ pred' = [params |-> params, training |-> training]
    /\ Goto("L59")
    /\ Log("forward", "train")
    /\ UNCHANGED <<env, loaders, wiring, loggers, loop, training, params, grad, loss,
                   out, hist>>

\* line 59: loss = loss_fn_ae(pred_Y_exp, Y_exp)
ComputeLoss(a) ==
    /\ pc = "L59"
    /\ IF loss_fn_ae = Unbound
       THEN Raise("UnboundLocalError", "L59")
       ELSE /\ loss' = [params |-> pred.params]
            /\ Goto("L60")
            /\ Log("loss_fn", "train")
            /\ UNCHANGED <<env, loaders, wiring, loggers, loop, training, params, grad,
                           pred, out, hist>>

\* line 60: train_logger.add_scalar("loss", loss.item(), global_step)
LogLoss(a) ==
    /\ pc = "L60"
    /\ IF train_logger = None
       THEN Raise("AttributeError", "L60")
       ELSE /\ logs' = add_scalar(train_logger, "loss", global_step)
            /\ Goto("L61")
            /\ Log("log_loss", "train")
            /\ UNCHANGED <<env, loaders, wiring, loggers, loop, model, saved, hist>>

\* line 61: corr_sum += corr_score(...)
TrainCorr(a) ==
    /\ pc = "L61"
    /\ \E c \in CorrValues : corr_sum' = corr_sum + c
    /\ Goto("L62")
    /\ Log("corr_score", "train")
    /\ UNCHANGED <<env, loaders, wiring, loggers, global_step, epoch, idx, model, out,
                   hist>>

\* line 62: loss.backward() adds to the .grad buffers
backward(g, p) ==
    IF g.state \in {"none", "zero"}
    THEN [state |-> "fresh", at |-> p]
    ELSE [state |-> "accumulated", at |-> p]

Backward(a) ==
    /\ pc = "L62"
    /\ grad' = backward(grad, loss.params)
    /\ Goto("L63")
    /\ Log("backward", "train")
    /\ UNCHANGED <<env, loaders, wiring, loggers, loop, training, params, pred, loss,
                   out, hist>>

\* line 63: optimizer.step()
OptimizerStep(a) ==
    /\ pc = "L63"
    /\ params' = params + 1
    /\ Goto("L64")
    /\ Log("opt_step", "train")
    /\ UNCHANGED <<env, loaders, wiring, loggers, loop, training, grad, pred, loss,
                   out, hist>>

\* faulty variant of IncGlobalStep: the counter is not advanced
IncGlobalStepMissing(a) ==
    /\ pc = "L64"
    /\ Goto("L54")
    /\ UNCHANGED <<env, loaders, wiring, loggers, loop, model, out, trace, hist>>

\* line 64: global_step += 1
IncGlobalStep(a) ==
    /\ pc = "L64"
    /\ global_step' = global_step + 1
    /\ Goto("L54")
    /\ UNCHANGED <<env, loaders, wiring, loggers, epoch, idx, corr_sum, model, out,
                   trace, hist>>

\* line 65: train_logger.add_scalar("corr", corr_sum/len(train_set), global_step)
\* (the attribute is looked up before the arguments are evaluated)
LogTrainCorr(a) ==
    /\ pc = "L65"
    /\ IF train_logger = None
       THEN Raise("AttributeError", "L65")
       ELSE IF train_set.len = 0
       THEN Raise("ZeroDivisionError", "L65")
       ELSE /\ logs' = add_scalar(train_logger, "corr", global_step)
            /\ Goto("L66")
            /\ Log("log_corr", "train")
            /\ UNCHANGED <<env, loaders, wiring, loggers, loop, model, saved, hist>>

\* lines 66-67: if args.verbose: print(... loss.item() ...)
TrainPrint(a) ==
    /\ pc = "L66"
    /\ IF a.verbose
       THEN IF loss = Unbound
            THEN Raise("UnboundLocalError", "L67")
            ELSE /\ Log("print", "train")
                 /\ Goto("L69")
                 /\ UNCHANGED <<env, loaders, wiring, loggers, loop, model, out, hist>>
       ELSE /\ Goto("L69")
            /\ UNCHANGED <<env, loaders, wiring, loggers, loop, model, out, trace, hist>>

\* faulty variant of ModelEval: corr_sum is not reset before validation
ModelEvalKeepSum(a) ==
    /\ pc = "L69"
    /\ training' = FALSE
    /\ idx' = 0
    /\ hist' = [hist EXCEPT !.val_scores = 0]
    /\ Goto("L72")
    /\ Log("model.eval", "val")
    /\ UNCHANGED <<env, loaders, wiring, loggers, global_step, epoch, corr_sum, params,
                   grad, pred, loss, out>>

\* lines 69-71: model.eval(); with torch.no_grad(): corr_sum = 0
ModelEval(a) ==
    /\ pc = "L69"
    /\ training' = FALSE
    /\ corr_sum' = 0
    /\ idx' = 0
    /\ hist' = [hist EXCEPT !.val_scores = 0]
    /\ Goto("L72")
    /\ Log("model.eval", "val")
    /\ UNCHANGED <<env, loaders, wiring, loggers, global_step, epoch, params, grad,
                   pred, loss, out>>

\* lines 72-74: for sample in val_set
ValLoop(a) ==
    /\ pc = "L72"
    /\ IF idx < val_set.len
       THEN /\ idx' = idx + 1
            /\ Goto("L75")
       ELSE /\ idx' = idx
            /\ Goto("L79")
    /\ UNCHANGED <<env, loaders, wiring, loggers, global_step, epoch, corr_sum, model,
                   out, trace, hist>>

\* line 75: pred_Y_exp = model(X_exp)
ValForward(a) ==
    /\ pc = "L75"
    /\ pred' = [params |-> params, training |-> training]
    /\ Goto("L78")
    /\ Log("forward", "val")
    /\ UNCHANGED <<env, loaders, wiring, loggers, loop, training, params, grad, loss,
                   out, hist>>

\* line 78: corr_sum += corr_score(...)
ValCorr(a) ==
    /\ pc = "L78"
    /\ \E c \in CorrValues :
          /\ corr_sum' = corr_sum + c
          /\ hist' = [hist EXCEPT !.val_scores = @ + c]
    /\ Goto("L72")
    /\ Log("corr_score", "val")
    /\ UNCHANGED <<env, loaders, wiring, loggers, global_step, epoch, idx, model, out>>

\* line 79: valid_logger.add_scalar("corr", corr_sum/len(val_set), global_step)
LogValCorr(a) ==
    /\ pc = "L79"
    /\ IF valid_logger = None
       THEN Raise("AttributeError", "L79")
       ELSE IF val_set.len = 0
       THEN Raise("ZeroDivisionError", "L79")
       ELSE /\ logs' = add_scalar(valid_logger, "corr", global_step)
            /\ Goto("L80")
            /\ Log("log_corr", "val")
            /\ UNCHANGED <<env, loaders, wiring, loggers, loop, model, saved, hist>>

\* lines 80-81: if args.verbose: print(...)
ValPrint(a) ==
    /\ pc = "L80"
    /\ Goto("L83")
    /\ IF a.verbose
       THEN Log("print", "val")
       ELSE trace' = trace
    /\ UNCHANGED <<env, loaders, wiring, loggers, loop, model, out, hist>>

\* line 83: if args.schedule_lr
ScheduleTest(a) ==
    /\ pc = "L83"
    /\ IF a.schedule_lr THEN Goto("L84") ELSE Goto("L51")
    /\ UNCHANGED <<env, loaders, wiring, loggers, loop, model, out, trace, hist>>

\* line 84: train_logger.add_scalar('lr', optimizer.param_groups[0]['lr'], global_step)
LogLR(a) ==
    /\ pc = "L84"
    /\ logs' = add_scalar(train_logger, "lr", global_step)
    /\ Goto("L85")
    /\ Log("log_lr", "sched")
    /\ UNCHANGED <<env, loaders, wiring, loggers, loop, model, saved, hist>>

\* ReduceLROnPlateau.step(metric), mode 'max', cooldown 0, factor 0.1:
\* the new [best, num_bad_epochs] and whether the learning rate is reduced.
\* (The relative threshold of 1e-4 is finer than any two distinct means here.)
plateau_step(s, metric) ==
    LET better == Greater(metric, s.best)
        best == IF better THEN metric ELSE s.best
        bad == IF better THEN 0 ELSE s.num_bad_epochs + 1
    IN  IF bad > Patience
        THEN [best |-> best, num_bad_epochs |-> 0, reduce |-> TRUE]
        ELSE [best |-> best, num_bad_epochs |-> bad, reduce |-> FALSE]

\* line 85: scheduler.step(corr_sum/len(val_set))
SchedulerStep(a) ==
    /\ pc = "L85"
    /\ LET metric == Mean(corr_sum, val_set.len)
           r == plateau_step(scheduler, metric)
       IN  /\ scheduler' = [best |-> r.best, num_bad_epochs |-> r.num_bad_epochs]
           /\ optimizer' = IF r.reduce
                           THEN [optimizer EXCEPT !.lr = @ \div 10]
                           ELSE optimizer
           /\ hist' = [hist EXCEPT !.metric = metric]
    /\ Goto("L51")
    /\ Log("sched_step", "sched")
    /\ UNCHANGED <<env, loaders, loss_fn_ae, loggers, loop, model, out>>

\* faulty variant of should_save: the model is saved whatever args.save is
should_save_always(a) == TRUE

\* lines 87-88: if args.save: save_model(model)
should_save(a) == a.save

SaveModel(a) ==
    /\ pc = "L87"
    /\ Goto("done")
    /\ IF should_save(a)
       THEN /\ saved' = saved + 1
            /\ Log("save_model", "final")
       ELSE /\ saved' = saved
            /\ trace' = trace
    /\ UNCHANGED <<env, loaders, wiring, loggers, loop, model, logs, hist>>

\* ---------------------------------------------------------- specification
\* one statement of train(), executed with the argument namespace a
Step(a) ==
    \/ LoadData(a)
    \/ SelectOptimizer(a)
    \/ CreateScheduler(a)
    \/ SelectLoss(a)
    \/ CreateLoggers(a)
    \/ EpochLoop(a)
    \/ ModelTrain(a)
    \/ TrainLoop(a)
    \/ ZeroGrad(a)
    \/ Forward(a)
    \/ ComputeLoss(a)
    \/ LogLoss(a)
    \/ TrainCorr(a)
    \/ Backward(a)
    \/ OptimizerStep(a)
    \/ IncGlobalStep(a)
    \/ LogTrainCorr(a)
    \/ TrainPrint(a)
    \/ ModelEval(a)
    \/ ValLoop(a)
    \/ ValForward(a)
    \/ ValCorr(a)
    \/ LogValCorr(a)
    \/ ValPrint(a)
    \/ ScheduleTest(a)
    \/ LogLR(a)
    \/ SchedulerStep(a)
    \/ SaveModel(a)

\* the next-state relation: the statement at pc, with the arguments of the call
Next ==
    \/ LoadData(args)
    \/ SelectOptimizer(args)
    \/ CreateScheduler(args)
    \/ SelectLoss(args)
    \/ CreateLoggers(args)
    \/ EpochLoop(args)
    \/ ModelTrain(args)
    \/ TrainLoop(args)
    \/ ZeroGrad(args)
    \/ Forward(args)
    \/ ComputeLoss(args)
    \/ LogLoss(args)
    \/ TrainCorr(args)
    \/ Backward(args)
    \/ OptimizerStep(args)
    \/ IncGlobalStep(args)
    \/ LogTrainCorr(args)
    \/ TrainPrint(args)
    \/ ModelEval(args)
    \/ ValLoop(args)
    \/ ValForward(args)
    \/ ValCorr(args)
    \/ LogValCorr(args)
    \/ ValPrint(args)
    \/ ScheduleTest(args)
    \/ LogLR(args)
    \/ SchedulerStep(args)
    \/ SaveModel(args)

\* the state on entry to train(args), for the given argument and dataset sets
Entry(argSet, dataSet) ==
    /\ args \in argSet
    /\ dataset \in dataSet
    /\ train_set = Unbound /\ val_set = Unbound
    /\ pc = "L15" /\ error = None
    /\ optimizer = Unbound /\ scheduler = Unbound /\ loss_fn_ae = Unbound
    /\ train_logger = Unbound /\ valid_logger = Unbound
    /\ global_step = 0 /\ epoch = -1 /\ idx = 0
    /\ training = TRUE /\ params = 0
    /\ grad = [state |-> "none", at |-> 0]
    /\ pred = Unbound /\ loss = Unbound
    /\ corr_sum = 0
    /\ logs = <<>> /\ saved = 0 /\ trace = <<>>
    /\ hist = [val_scores |-> 0, metric |-> None]

\* the command line of lines 93-103, within the bounds, for the given batch sizes
ArgsWith(batches) ==
    [optimizer : Optimizers, loss_ae : Losses, schedule_lr : BOOLEAN,
     n_epochs : 0..MaxEpochs, log_dir : LogDirs, save : BOOLEAN,
     verbose : BOOLEAN, batch_size : batches, learning_rate : {DefaultLR}]

Args == ArgsWith({DefaultBatch})

Datasets == [train : 0..MaxTrain, val : 0..MaxVal]

Init == Entry(Args, Datasets)

Spec == Init /\ [][Next]_vars

\* long scheduled runs: one plateau of the validation metric fits in them
SchedArgs ==
    [optimizer : {"Adam", "SGD"}, loss_ae : {"mse"}, schedule_lr : BOOLEAN,
     n_epochs : {SchedEpochs}, log_dir : {[path |-> "logdir"]}, save : {TRUE},
     verbose : {TRUE}, batch_size : {DefaultBatch}, learning_rate : {DefaultLR}]

SchedDatasets == [train : {1, 2}, val : 1..MaxVal]

InitSched == Entry(SchedArgs, SchedDatasets)

SpecSched == InitSched /\ [][Next]_vars

\* the runs of Spec, for several values of --batch_size
InitBatch == Entry(ArgsWith(BatchSizes), Datasets)

SpecBatch == InitBatch /\ [][Next]_vars

\* ------------------------------------------------- vocabulary of the claims
Terminal == pc \in {"done", "failed"}

\* the values --optimizer and --loss_ae are documented to take
ValidOptimizer == args.optimizer \in {"Adam", "SGD"}
ValidLoss == args.loss_ae \in {"mse", "nb", "gauss", "ncorr"}
ValidOptions == ValidOptimizer /\ ValidLoss
HasLogDir == args.log_dir # None

\* positions of the history holding operation o
TraceIdx(o) == {i \in DOMAIN trace : trace[i].op = o}
NumOps(o) == Cardinality(TraceIdx(o))

\* positions of the history holding operation o of phase ph in epoch e
EpochIdx(o, ph, e) ==
    {i \in DOMAIN trace : trace[i].op = o /\ trace[i].phase = ph /\ trace[i].epoch = e}

\* the scalars written under tag to the writer w
LogIdx(w, tag) == {i \in DOMAIN logs : logs[i].logger = w /\ logs[i].tag = tag}
NumLogs(w, tag) == Cardinality(LogIdx(w, tag))

\* the lengths of the two loaders that line 21 yields
TrainLen == dataset.train
ValLen == dataset.val

\* the statements of the two option selections
SelectionLines == {"L29", "L36"}

\* ------------------------------------------------------------------- C1
\* C1 (as stated): with an unmatched --optimizer or --loss_ae, no error is
\* raised where the option is selected, and the run never completes normally:
\* whatever n_epochs, schedule_lr and the set sizes are, it ends in a failure.
C1_AsStated ==
    ~ValidOptions =>
        /\ pc = "failed" => error.line \notin SelectionLines
        /\ pc # "done"

\* C1 (amended): with an unmatched --optimizer or --loss_ae no error is raised
\* where the option is selected and the name is left unbound; the run ends in
\* a runtime failure exactly when n_epochs >= 1 or the optimizer is unmatched
\* and schedule_lr is set (line 34 reads it); otherwise, with n_epochs = 0, it
\* completes normally.  A run that has not ended can take a step.
C1_UnboundFailsLater ==
    ~ValidOptions =>
        /\ pc = "failed" => error.line \notin SelectionLines
        /\ (~ValidOptimizer /\ pc \notin {"L15", "L29"}) => optimizer = Unbound
        /\ (~ValidLoss /\ pc \notin {"L15", "L29", "L33", "L36", "failed"})
              => loss_fn_ae = Unbound
        /\ pc = "failed" =>
              (args.n_epochs >= 1 \/ (~ValidOptimizer /\ args.schedule_lr))
        /\ pc = "done" =>
              (args.n_epochs = 0 /\ ~(~ValidOptimizer /\ args.schedule_lr))
        /\ ~Terminal => ENABLED Next

\* an unmatched optimizer is first missed by optimizer.zero_grad() of line 57
C1_Witness ==
    /\ ~ValidOptimizer
    /\ pc = "failed"
    /\ error = [kind |-> "UnboundLocalError", line |-> "L57"]

\* ------------------------------------------------------------------- C2
C2_Pre ==
    /\ ValidOptions /\ HasLogDir
    /\ args.n_epochs >= 1 /\ TrainLen > 0 /\ ValLen > 0

AllEpochsDone ==
    /\ epoch = args.n_epochs - 1
    /\ NumOps("model.train") = args.n_epochs
    /\ NumOps("opt_step") = args.n_epochs * TrainLen
    /\ NumLogs("train", "corr") = args.n_epochs
    /\ NumLogs("valid", "corr") = args.n_epochs
    /\ args.schedule_lr => NumOps("sched_step") = args.n_epochs

\* C3: save_model is called once if args.save is set and never if it is not;
\* the call is the last operation of train(), after all n_epochs epochs are
\* over, so that no optimizer.step and no scalar write follows it; a run that
\* failed has not called it.
C3_SaveOnceAtEnd ==
    LET calls == TraceIdx("save_model") IN
    /\ saved = Cardinality(calls)
    /\ pc = "done" => saved = (IF args.save THEN 1 ELSE 0)
    /\ pc # "done" => saved = 0
    /\ \A i \in calls :
          /\ i = Len(trace)
          /\ pc = "done"
          /\ AllEpochsDone

C3_Witness ==
    /\ pc = "done" /\ saved = 1
    /\ args.n_epochs > 1 /\ NumOps("opt_step") > 1 /\ args.schedule_lr

\* ------------------------------------------------------------------- C4
\* the positions of the history that belong to epoch e
OfEpoch(e) ==
    {i \in DOMAIN trace : trace[i].epoch = e /\ trace[i].phase \in {"train", "val", "sched"}}

\* C4: with schedule_lr set, scheduler.step is called once per epoch, after
\* that epoch's validation pass and with that epoch's mean validation
\* correlation; the `lr` scalar of an epoch is the learning rate its training
\* batches ran with, read before scheduler.step; without schedule_lr there is
\* no scheduler, no scheduler.step, and the learning rate stays at
\* args.learning_rate.
C4_SchedulerOnValidation ==
    /\ args.schedule_lr =>
          /\ \A i \in TraceIdx("sched_step") :
                LET mine == OfEpoch(trace[i].epoch) IN
                /\ \A j \in mine :
                      /\ j <= i
                      /\ trace[j].op = "sched_step" => j = i
                      /\ trace[j].lr = trace[i].lr
                /\ trace[i - 1].op = "log_lr" /\ (i - 1) \in mine
                /\ \E j \in mine : trace[j].op = "log_corr" /\ trace[j].phase = "val"
                /\ \E j \in mine : trace[j].op = "forward" /\ trace[j].phase = "val"
                /\ \E j \in mine : trace[j].op = "opt_step"
          /\ pc = "L51" /\ epoch >= 0 =>
                /\ hist.metric = Mean(hist.val_scores, ValLen)
                /\ EpochIdx("sched_step", "sched", epoch) # {}
          /\ pc \in {"L84", "L85"} => EpochIdx("sched_step", "sched", epoch) = {}
    /\ ~args.schedule_lr =>
          /\ scheduler = Unbound
          /\ NumOps("sched_step") = 0 /\ NumOps("create_scheduler") = 0
          /\ hist.metric = None
          /\ optimizer # Unbound => optimizer.lr = args.learning_rate

\* the plateau has been met: a later epoch logs and trains with a reduced rate
C4_Witness ==
    /\ args.schedule_lr /\ pc = "L51"
    /\ \E i \in TraceIdx("log_lr") :
          /\ trace[i].lr < args.learning_rate
          /\ \E j \in EpochIdx("opt_step", "train", trace[i].epoch) : j < i
    /\ \E i \in TraceIdx("sched_step") : trace[i].lr > optimizer.lr
    /\ hist.val_scores > 0

\* ------------------------------------------------------------------- C5
\* exactly n_epochs epochs were run, in order, each a full pass over train_set
\* followed by a full pass over val_set
EpochsRunInOrder ==
    /\ NumOps("model.train") = args.n_epochs
    /\ NumOps("model.eval") = args.n_epochs
    /\ \A i \in DOMAIN trace :
          /\ trace[i].epoch < args.n_epochs
          /\ i > 1 => trace[i - 1].epoch <= trace[i].epoch
    /\ \A e \in 0..(args.n_epochs - 1) :
          /\ Cardinality(EpochIdx("model.train", "train", e)) = 1
          /\ Cardinality(EpochIdx("forward", "train", e)) = TrainLen
          /\ Cardinality(EpochIdx("opt_step", "train", e)) = TrainLen
          /\ Cardinality(EpochIdx("forward", "val", e)) = ValLen
          /\ Cardinality(EpochIdx("log_corr", "val", e)) = 1
          /\ \A i, j \in OfEpoch(e) :
                (trace[i].phase = "train" /\ trace[j].phase = "val") => i < j

BatchOrder ==
    <<"zero_grad", "forward", "loss_fn", "log_loss", "corr_score", "backward", "opt_step">>

\* the operation that comes right before each of them but the first
PrevInBatch ==
    [o \in {BatchOrder[n] : n \in 2..Len(BatchOrder)} |->
        BatchOrder[(CHOOSE n \in 2..Len(BatchOrder) : BatchOrder[n] = o) - 1]]

\* C6: within a training batch the operations come in the order zero_grad,
\* forward, loss, `loss` write, backward, step; every optimizer.step follows
\* exactly one backward since the latest zero_grad, on gradients of the
\* current parameters, and the loss logged for a batch is computed with the
\* parameters as they were before that batch's step.
C6_BatchOrder ==
    /\ \A i \in DOMAIN trace :
          trace[i].phase = "train" =>
             /\ trace[i].op = "zero_grad" =>
                   trace[i - 1].op \in {"model.train", "opt_step"}
             /\ trace[i].op \in DOMAIN PrevInBatch =>
                   /\ trace[i - 1].op = PrevInBatch[trace[i].op]
                   /\ trace[i - 1].phase = "train"
                   /\ trace[i - 1].params = trace[i].params
    /\ \A i \in TraceIdx("opt_step") :
          /\ trace[i].grad = [state |-> "fresh", at |-> trace[i].params]
          /\ trace[i - 1].grad = [state |-> "zero", at |-> trace[i].params]
          /\ trace[i - 3].op = "log_loss"
          /\ trace[i - 3].loss_of = trace[i].params
          /\ trace[i].loss_of = trace[i].params
    /\ params = NumOps("opt_step")

\* two batches of one epoch, each stepped on its own fresh gradients
C6_Witness ==
    \E i, j \in TraceIdx("opt_step") :
        /\ i < j /\ trace[i].epoch = trace[j].epoch
        /\ trace[j].grad = [state |-> "fresh", at |-> 1]

\* ------------------------------------------------------------------- C7
ValOps == {"model.eval", "forward", "corr_score", "log_corr", "print"}
ValPcs == {"L72", "L75", "L78", "L79", "L80"}

\* C7: the validation pass leaves the training state unchanged: between
\* model.eval() and the end of the loop over val_set there is no zero_grad,
\* backward or optimizer.step, global_step is not modified and no `loss` is
\* written; every validation forward pass runs in eval mode and every
\* training forward pass, of every epoch, in train mode.
C7_ValidationFrame ==
    /\ \A i \in DOMAIN trace :
          /\ trace[i].op = "forward" =>
                (trace[i].training <=> trace[i].phase = "train")
          /\ trace[i].phase = "val" =>
                /\ trace[i].op \in ValOps
                /\ trace[i].op # "model.eval" =>
                      /\ trace[i - 1].phase = "val"
                      /\ trace[i - 1].gs = trace[i].gs
                      /\ trace[i - 1].params = trace[i].params
                      /\ trace[i - 1].grad = trace[i].grad
                      /\ trace[i - 1].lr = trace[i].lr
    /\ pc \in ValPcs =>
          /\ trace[Len(trace)].phase = "val"
          /\ trace[Len(trace)].gs = global_step
          /\ trace[Len(trace)].params = params
          /\ trace[Len(trace)].grad = grad
          /\ ~training
    /\ NumLogs("train", "loss") = NumOps("log_loss")
    /\ NumLogs("valid", "loss") = 0

\* a training forward pass of a later epoch, after a validation forward pass
C7_Witness ==
    \E i, j \in TraceIdx("forward") :
        /\ i < j
        /\ trace[i].phase = "val" /\ ~trace[i].training
        /\ trace[j].phase = "train" /\ trace[j].training

\* ------------------------------------------------------------------- C8
\* the steps of the scalars written under tag to the writer w, in order
StepsOf(w, tag) ==
    LET sel == SelectSeq(logs, LAMBDA r : r.logger = w /\ r.tag = tag)
    IN  [k \in DOMAIN sel |-> sel[k].step]

\* the statements from the end of an epoch's training loop to its last one
EpochEndPcs ==
    {"L65", "L66", "L69", "L72", "L75", "L78", "L79", "L80", "L83", "L84", "L85"}

\* the `loss` scalars use the steps 0, 1, 2, ... once each and in order; at the
\* end of epoch e global_step is (e+1) * len(train_set), and that epoch's
\* `corr` and `lr` scalars are written at that step
StepsInOrder ==
    /\ \A i \in DOMAIN trace : i > 1 => trace[i - 1].gs <= trace[i].gs
    /\ LET s == StepsOf("train", "loss") IN \A k \in DOMAIN s : s[k] = k - 1
    /\ pc \in EpochEndPcs => global_step = (epoch + 1) * TrainLen
    /\ LET s == StepsOf("train", "corr") IN \A k \in DOMAIN s : s[k] = k * TrainLen
    /\ LET s == StepsOf("valid", "corr") IN \A k \in DOMAIN s : s[k] = k * TrainLen
    /\ LET s == StepsOf("train", "lr") IN \A k \in DOMAIN s : s[k] = k * TrainLen

\* C8 (as stated): in every reachable state global_step equals the number of
\* optimizer.step calls completed so far and never decreases; the `loss`
\* scalars are written at the steps 0, 1, 2, ...; at the end of epoch e
\* global_step is (e+1) * len(train_set) and the epoch's `corr` and `lr`
\* scalars are written at that step.
C8_AsStated ==
    /\ global_step = NumOps("opt_step")
    /\ StepsInOrder

\* C8 (amended): the same, except that in the state between optimizer.step()
\* of line 63 and global_step += 1 of line 64 global_step is one less than the
\* number of optimizer.step calls completed.
C8_GlobalStep ==
    /\ NumOps("opt_step") = global_step + (IF pc = "L64" THEN 1 ELSE 0)
    /\ StepsInOrder

C8_Witness ==
    /\ pc = "L85" /\ epoch = 1 /\ TrainLen = 2
    /\ global_step = 4 /\ NumOps("opt_step") = 4
    /\ StepsOf("train", "loss") = <<0, 1, 2, 3>>
    /\ StepsOf("valid", "corr") = <<2, 4>>
    /\ StepsOf("train", "lr") = <<2, 4>>

\* ------------------------------------------------------------------- C9
\* the run has got past the creation of the loggers
LoggersMade == pc \notin {"L15", "L29", "L33", "L36", "L45"} /\ train_logger # Unbound

NoUpdate ==
    /\ NumOps("backward") = 0 /\ NumOps("opt_step") = 0
    /\ params = 0 /\ saved = 0

C10_BatchSizeUnread ==
    [][\A b \in BatchSizes : Step([args EXCEPT !.batch_size = b])]_vars

C10_Witness ==
    /\ args.batch_size = 2 /\ pc = "done"
    /\ TrainLen = 2 /\ train_set.len = 2 /\ NumOps("opt_step") = 4
====
